---- MODULE Spec2Model ----
(***************************************************************************)
(* A model of microdb.py: the MicroDB key-value store, its in-memory       *)
(* datastore, its pickle snapshot files and its JSON interchange files.    *)
(* One store object is live at a time; the file system is a function from  *)
(* paths to file contents.  A file holds the encoded form of a mapping, so *)
(* pickling and JSON encoding are conversions which loading has to invert. *)
(* I/O failures of the operating system (permissions, disk full) are not   *)
(* modelled: every write to a path of Paths succeeds.                      *)
(***************************************************************************)
EXTENDS Integers, Sequences, FiniteSets, TLC

VARIABLES
    datastore,  \* self.datastore: a function from the present keys to values
    order,      \* the keys of self.datastore in insertion order
    generated,  \* the number of calls of uuid.uuid4() made so far
    filename,   \* self.filename: the default location
    files,      \* the file system: path -> file content (NoFile when absent)
    saved,      \* history: path -> the datastore as of the last save there,
                \*   and as of the last JSON export there
    last,       \* history: the last call and what it returned
    steps       \* the number of calls made so far

vars == <<datastore, order, generated, filename, files, saved, last, steps>>

----------------------------------------------------------------------------
(* Inputs *)

MaxSteps == 4       \* calls made on the store in one run

Keys == {"a", "b"}
(* str(uuid.uuid4()): the i-th call gives Uuids[i], a string that no   *)
(* earlier call gave and that is not among Keys.                        *)
Uuids == <<"u1", "u2", "u3", "u4", "u5", "u6">>
Paths == {"db1", "db2"}
InitPath == "db1"
NoPath == "None"    \* the filename=None default argument

(* Python values: None, int and str, as records of one shape. *)
NoneV == [kind |-> "none", n |-> 0, s |-> ""]
IntV(i) == [kind |-> "int", n |-> i, s |-> ""]
StrV(t) == [kind |-> "str", n |-> 0, s |-> t]

Values == {NoneV, IntV(0), StrV("hello")}

(* Composite values: a dict from subkeys to values and a list of values. *)
DictV(m) == [kind |-> "dict", n |-> 0, s |-> "", m |-> m]
ListV(items) == [kind |-> "list", n |-> 0, s |-> "", items |-> items]

(* The inputs of the lookup and search methods. *)
MaxKeysLen == 2     \* length of the key list given to findkeys
SubKeys == {"t", "e"}
Patterns == {"ell", "xyz"}
KeySeqs == UNION {[1..n -> Keys] : n \in 0..MaxKeysLen}

(* The values stored when the lookup and search methods are exercised. *)
QueryValues ==
    Values \cup {DictV([t |-> StrV("hello")]), DictV([t |-> IntV(0)]),
                 DictV(<<>>), ListV(<<StrV("t")>>)}

(* bool(v): the truth value Python gives v in `if v:`. *)
Truthy(v) ==
    CASE v.kind = "none" -> FALSE
      [] v.kind = "int" -> v.n # 0
      [] v.kind = "str" -> v.s # ""
      [] v.kind = "dict" -> DOMAIN v.m # {}
      [] v.kind = "list" -> v.items # <<>>

(* The characters of the strings that occur as text, subkey or pattern. *)
Chars(t) ==
    CASE t = "" -> <<>>
      [] t = "hello" -> <<"h", "e", "l", "l", "o">>
      [] t = "ell" -> <<"e", "l", "l">>
      [] t = "xyz" -> <<"x", "y", "z">>
      [] OTHER -> <<t>>

(* `needle in hay` for two strings, and re.search(needle, hay) for a     *)
(* pattern without metacharacters: needle occurs somewhere in hay.       *)
Contains(needle, hay) ==
    LET n == Chars(needle)
        h == Chars(hay)
    IN  \E i \in 0..(Len(h) - Len(n)) : SubSeq(h, i + 1, i + Len(n)) = n

----------------------------------------------------------------------------
(* Dictionaries.  A Python dict is a function from its keys to values    *)
(* together with the sequence of its keys in insertion order, which is   *)
(* the order in which it is iterated, pickled and written as JSON.       *)

EmptyDict == [k \in {} |-> NoneV]

(* d[key] = data *)
SetItem(d, key, data) ==
    [k \in (DOMAIN d) \cup {key} |-> IF k = key THEN data ELSE d[k]]

(* del d[key] *)
DelItem(d, key) == [k \in (DOMAIN d) \ {key} |-> d[k]]

(* The key order after d[key] = data: a new key goes to the end, a key  *)
(* that is present keeps its place.                                      *)
OrderSet(ord, key) ==
    IF \E i \in 1..Len(ord) : ord[i] = key THEN ord ELSE Append(ord, key)

(* The key order after del d[key]. *)
OrderDel(ord, key) == SelectSeq(ord, LAMBDA j : j # key)

(* The orders in which the keys of the set S can have been inserted. *)
Orders(S) ==
    {o \in [1..Cardinality(S) -> S] : \A k \in S : \E i \in DOMAIN o : o[i] = k}

----------------------------------------------------------------------------
(* File contents.  A file is a record [fmt, items, order]: fmt says which  *)
(* writer produced it, items is the set of <<key, encoded value>> pairs    *)
(* and order is the sequence of the keys as they follow in the file.       *)

NoFile == [fmt |-> "absent", items |-> {}, order |-> <<>>]

Exists(fs, p) == fs[p].fmt # "absent"

(* pickle of a value: the opcode N for None, I with the number for an   *)
(* int, V with the text for a str; a triple <<opcode, number, text>>.   *)
PickleValue(v) ==
    CASE v.kind = "none" -> <<"N", 0, "">>
      [] v.kind = "int" -> <<"I", v.n, "">>
      [] v.kind = "str" -> <<"V", 0, v.s>>

UnpickleValue(t) ==
    CASE t[1] = "N" -> NoneV
      [] t[1] = "I" -> IntV(t[2])
      [] t[1] = "V" -> StrV(t[3])

PickleDump(d, ord) ==
    [fmt |-> "pickle", items |-> {<<k, PickleValue(d[k])>> : k \in DOMAIN d},
     order |-> ord]

PickleLoad(f) ==
    [k \in {it[1] : it \in f.items} |->
        UnpickleValue((CHOOSE it \in f.items : it[1] = k)[2])]

(* JSON text of a value: the literal null, a number, or a quoted string; *)
(* a triple <<token, number, text>>.                                     *)
JsonValue(v) ==
    CASE v.kind = "none" -> <<"null", 0, "">>
      [] v.kind = "int" -> <<"number", v.n, "">>
      [] v.kind = "str" -> <<"string", 0, v.s>>

ParseJsonValue(t) ==
    CASE t[1] = "null" -> NoneV
      [] t[1] = "number" -> IntV(t[2])
      [] t[1] = "string" -> StrV(t[3])

JsonDumps(d, ord) ==
    [fmt |-> "json", items |-> {<<k, JsonValue(d[k])>> : k \in DOMAIN d},
     order |-> ord]

JsonLoads(f) ==
    [k \in {it[1] : it \in f.items} |->
        ParseJsonValue((CHOOSE it \in f.items : it[1] = k)[2])]

----------------------------------------------------------------------------
(* Methods, as functions from the object and the file system to the       *)
(* object and the file system after the call and the value returned:      *)
(* ds and ord are self.datastore, fn is self.filename, fs the files.      *)

Result(ds, ord, fn, fs, ret) ==
    [ds |-> ds, ord |-> ord, fn |-> fn, fs |-> fs, ret |-> ret]

(* _store_data that ignores its filename argument. *)
store_data_ignore_path(ds, ord, fn, fs, path) ==
    [fs EXCEPT ![fn] = PickleDump(ds, ord)]

(* _store_data(filename=None): the file system after the write. *)
store_data(ds, ord, fn, fs, path) ==
    LET target == IF path = NoPath THEN fn ELSE path
    IN  [fs EXCEPT ![target] = PickleDump(ds, ord)]

(* _load_data that reads the file but does not assign self.datastore. *)
load_data_forget(fs, path, exists) ==
    IF Exists(fs, path)
    THEN IF fs[path].fmt = "pickle"
         THEN Result(EmptyDict, <<>>, path, fs, "dict")
         ELSE Result(EmptyDict, <<>>, path, fs, "UnpicklingError")
    ELSE IF exists
         THEN Result(EmptyDict, <<>>, path, fs, "TypeError")
         ELSE Result(EmptyDict, <<>>, path, fs, "dict")

(* _load_data(filename, exists), called by the constructor on a fresh     *)
(* object whose datastore is {}.                                           *)
load_data(fs, path, exists) ==
    IF Exists(fs, path)
    THEN IF fs[path].fmt = "pickle"
         THEN Result(PickleLoad(fs[path]), fs[path].order, path, fs, "dict")
         ELSE Result(EmptyDict, <<>>, path, fs, "UnpicklingError")
    ELSE IF exists
         THEN Result(EmptyDict, <<>>, path, fs, "TypeError")
         ELSE Result(EmptyDict, <<>>, path, fs, "dict")

(* MicroDB(filename, preload, exist) *)
init_m(fs, path, preload, exist) ==
    IF preload
    THEN LET r == load_data(fs, path, exist)
         IN  Result(r.ds, r.ord, path, fs,
                    IF r.ret = "dict" THEN "MicroDB" ELSE r.ret)
    ELSE Result(EmptyDict, <<>>, path, fs, "MicroDB")

(* save that adopts the override path as the default location. *)
save_m_adopts_path(ds, ord, fn, fs, path) ==
    Result(ds, ord, IF path = NoPath THEN fn ELSE path,
           store_data(ds, ord, fn, fs, path), "None")

save_m(ds, ord, fn, fs, path) ==
    Result(ds, ord, fn, store_data(ds, ord, fn, fs, path), "None")

(* purge that honours clear_datastore, as its docstring describes. *)
purge_m_clear(ds, ord, fn, fs, clear_datastore) ==
    LET ds2 == IF clear_datastore THEN EmptyDict ELSE ds
        ord2 == IF clear_datastore THEN <<>> ELSE ord
    IN  IF Exists(fs, fn)
        THEN Result(ds2, ord2, fn, [fs EXCEPT ![fn] = NoFile], "True")
        ELSE Result(ds2, ord2, fn, fs, "False")

(* purge that tests the file but returns True on both paths. *)
purge_m_always_true(ds, ord, fn, fs, clear_datastore) ==
    IF Exists(fs, fn)
    THEN Result(ds, ord, fn, [fs EXCEPT ![fn] = NoFile], "True")
    ELSE Result(ds, ord, fn, fs, "True")

purge_m(ds, ord, fn, fs, clear_datastore) ==
    IF Exists(fs, fn)
    THEN Result(ds, ord, fn, [fs EXCEPT ![fn] = NoFile], "True")
    ELSE Result(ds, ord, fn, fs, "False")

(* rename that moves the file of the previous location to the new one. *)
rename_m_moves_file(ds, ord, fn, fs, path, save) ==
    LET moved == IF path = fn THEN fs
                 ELSE [fs EXCEPT ![path] = fs[fn], ![fn] = NoFile]
    IN  IF save
        THEN Result(ds, ord, path, store_data(ds, ord, path, moved, NoPath), "None")
        ELSE Result(ds, ord, path, moved, "None")

rename_m(ds, ord, fn, fs, path, save) ==
    IF save
    THEN Result(ds, ord, path, store_data(ds, ord, path, fs, NoPath), "None")
    ELSE Result(ds, ord, path, fs, "None")

(* add without the membership test: an existing key is overwritten. *)
add_m_overwrite(ds, ord, fn, fs, key, data, save) ==
    LET ds2 == SetItem(ds, key, data)
        ord2 == OrderSet(ord, key)
    IN  Result(ds2, ord2, fn,
               IF save THEN store_data(ds2, ord2, fn, fs, NoPath) ELSE fs, "True")

add_m(ds, ord, fn, fs, key, data, save) ==
    IF ~(key \in DOMAIN ds)
    THEN LET ds2 == SetItem(ds, key, data)
             ord2 == OrderSet(ord, key)
         IN  Result(ds2, ord2, fn,
                    IF save THEN store_data(ds2, ord2, fn, fs, NoPath) ELSE fs,
                    "True")
    ELSE Result(ds, ord, fn, fs, "False")

(* addkey(data, save) when str(uuid.uuid4()) gave key: the key when add *)
(* stored the data under it, False when add refused.                    *)
addkey_m(ds, ord, fn, fs, key, data, save) ==
    LET r == add_m(ds, ord, fn, fs, key, data, save)
    IN  Result(r.ds, r.ord, r.fn, r.fs, IF r.ret = "True" THEN key ELSE "False")

(* update without the membership test: a missing key is inserted. *)
update_m_upsert(ds, ord, fn, fs, key, data, save) ==
    LET ds2 == SetItem(ds, key, data)
        ord2 == OrderSet(ord, key)
    IN  Result(ds2, ord2, fn,
               IF save THEN store_data(ds2, ord2, fn, fs, NoPath) ELSE fs, "True")

(* update with the save outside the membership test: a miss still writes *)
(* the snapshot.                                                          *)
update_m_saves_on_miss(ds, ord, fn, fs, key, data, save) ==
    LET hit == key \in DOMAIN ds
        ds2 == IF hit THEN SetItem(ds, key, data) ELSE ds
    IN  Result(ds2, ord, fn,
               IF save THEN store_data(ds2, ord, fn, fs, NoPath) ELSE fs,
               IF hit THEN "True" ELSE "False")

update_m(ds, ord, fn, fs, key, data, save) ==
    IF key \in DOMAIN ds
    THEN LET ds2 == SetItem(ds, key, data)
             ord2 == OrderSet(ord, key)
         IN  Result(ds2, ord2, fn,
                    IF save THEN store_data(ds2, ord2, fn, fs, NoPath) ELSE fs,
                    "True")
    ELSE Result(ds, ord, fn, fs, "False")

(* delete that writes the snapshot before it removes the key. *)
delete_m_save_first(ds, ord, fn, fs, key, save) ==
    IF key \in DOMAIN ds
    THEN Result(DelItem(ds, key), OrderDel(ord, key), fn,
                IF save THEN store_data(ds, ord, fn, fs, NoPath) ELSE fs, "True")
    ELSE Result(ds, ord, fn, fs, "False")

(* delete that reports success whether or not the key was there. *)
delete_m_always_true(ds, ord, fn, fs, key, save) ==
    LET ds2 == DelItem(ds, key)
        ord2 == OrderDel(ord, key)
    IN  Result(ds2, ord2, fn,
               IF save THEN store_data(ds2, ord2, fn, fs, NoPath) ELSE fs, "True")

delete_m(ds, ord, fn, fs, key, save) ==
    IF key \in DOMAIN ds
    THEN LET ds2 == DelItem(ds, key)
             ord2 == OrderDel(ord, key)
         IN  Result(ds2, ord2, fn,
                    IF save THEN store_data(ds2, ord2, fn, fs, NoPath) ELSE fs,
                    "True")
    ELSE Result(ds, ord, fn, fs, "False")

(* findkey(key): the stored value, or None when the key is absent. *)
findkey_m(ds, key) == IF key \in DOMAIN ds THEN ds[key] ELSE NoneV

(* findkeys(keys): the list data after the loop over keys[i..]. *)
RECURSIVE findkeys_loop(_, _, _, _)
findkeys_loop(ds, keys, i, data) ==
    IF i > Len(keys) THEN data
    ELSE LET item == findkey_m(ds, keys[i])
         IN  findkeys_loop(ds, keys, i + 1,
                           IF Truthy(item) THEN Append(data, item) ELSE data)

findkeys_m(ds, keys) == findkeys_loop(ds, keys, 1, <<>>)

(* One iteration of the loop of search_subkey on the value v: "raise"    *)
(* when `key in v`, `v[key]` or re.search raises TypeError, "found" when *)
(* the pattern matches the text at the subkey, "skip" otherwise.         *)
search_item(v, key, pattern) ==
    CASE v.kind \in {"none", "int"} -> "raise"
      [] v.kind = "str" -> IF Contains(key, v.s) THEN "raise" ELSE "skip"
      [] v.kind = "list" ->
            IF \E i \in 1..Len(v.items) : v.items[i] = StrV(key)
            THEN "raise" ELSE "skip"
      [] v.kind = "dict" ->
            IF key \in DOMAIN v.m
            THEN LET txt == v.m[key]
                 IN  IF txt.kind # "str" THEN "raise"
                     ELSE IF Contains(pattern, txt.s) THEN "found" ELSE "skip"
            ELSE "skip"

(* The loop of search_subkey over self.datastore.items(), from the i-th *)
(* entry in insertion order on.                                          *)
RECURSIVE search_loop(_, _, _, _, _, _)
search_loop(ds, ord, i, key, pattern, found) ==
    IF i > Len(ord) THEN [ret |-> "list", found |-> found]
    ELSE LET k == ord[i]
             o == search_item(ds[k], key, pattern)
         IN  IF o = "raise" THEN [ret |-> "TypeError", found |-> <<>>]
             ELSE search_loop(ds, ord, i + 1, key, pattern,
                              IF o = "found" THEN Append(found, k) ELSE found)

search_subkey_m(ds, ord, key, pattern) ==
    search_loop(ds, ord, 1, key, pattern, <<>>)

(* to_json that leaves out the entries whose value is None. *)
to_json_m_drops_null(ds, ord, fn, fs, path) ==
    LET kept == [k \in {j \in DOMAIN ds : ds[j] # NoneV} |-> ds[k]]
        keptOrd == SelectSeq(ord, LAMBDA j : ds[j] # NoneV)
    IN  Result(ds, ord, fn, [fs EXCEPT ![path] = JsonDumps(kept, keptOrd)], "True")

to_json_m(ds, ord, fn, fs, path) ==
    Result(ds, ord, fn, [fs EXCEPT ![path] = JsonDumps(ds, ord)], "True")

(* open(filename, 'rb') followed by json.loads(fd.read()): the exception *)
(* raised, or "ok" when the file holds a JSON document.                  *)
read_json(fs, path) ==
    IF ~Exists(fs, path) THEN "FileNotFoundError"
    ELSE IF fs[path].fmt # "json" THEN "UnicodeDecodeError"
    ELSE "ok"

(* load_json that updates the datastore with the document instead of    *)
(* replacing it.                                                         *)
load_json_m_merges(ds, ord, fn, fs, path, save) ==
    IF read_json(fs, path) # "ok"
    THEN Result(ds, ord, fn, fs, read_json(fs, path))
    ELSE LET doc == JsonLoads(fs[path])
             ds2 == [k \in (DOMAIN ds) \cup (DOMAIN doc) |->
                        IF k \in DOMAIN doc THEN doc[k] ELSE ds[k]]
             ord2 == ord \o SelectSeq(fs[path].order, LAMBDA j : j \notin DOMAIN ds)
         IN  Result(ds2, ord2, fn,
                    IF save THEN save_m(ds2, ord2, fn, fs, NoPath).fs ELSE fs,
                    "True")

load_json_m(ds, ord, fn, fs, path, save) ==
    IF read_json(fs, path) # "ok"
    THEN Result(ds, ord, fn, fs, read_json(fs, path))
    ELSE LET ds2 == JsonLoads(fs[path])
             ord2 == fs[path].order
         IN  Result(ds2, ord2, fn,
                    IF save THEN save_m(ds2, ord2, fn, fs, NoPath).fs ELSE fs,
                    "True")

(* The loop body with the branches the other way round: a new key is   *)
(* added, an existing key is updated when duplicate is set.             *)
append_item_swapped(st, key, data, save, duplicate) ==
    IF ~(key \in DOMAIN st.ds)
    THEN add_m(st.ds, st.ord, st.fn, st.fs, key, data, save)
    ELSE IF duplicate
         THEN update_m(st.ds, st.ord, st.fn, st.fs, key, data, save)
         ELSE Result(st.ds, st.ord, st.fn, st.fs, "False")

(* One iteration of the loop of append_json on the pair (key, data). *)
append_item(st, key, data, save, duplicate) ==
    IF Truthy(findkey_m(st.ds, key))
    THEN add_m(st.ds, st.ord, st.fn, st.fs, key, data, save)
    ELSE IF duplicate
         THEN update_m(st.ds, st.ord, st.fn, st.fs, key, data, save)
         ELSE Result(st.ds, st.ord, st.fn, st.fs, "False")

(* The loop of append_json over data.items(), from the i-th pair of the *)
(* parsed document on; keys is the order of the pairs in the document.  *)
RECURSIVE append_loop(_, _, _, _, _, _)
append_loop(st, doc, keys, i, save, duplicate) ==
    IF i > Len(keys) THEN st
    ELSE append_loop(append_item(st, keys[i], doc[keys[i]], save, duplicate),
                     doc, keys, i + 1, save, duplicate)

append_json_m(ds, ord, fn, fs, path, save, duplicate) ==
    IF read_json(fs, path) # "ok"
    THEN Result(ds, ord, fn, fs, read_json(fs, path))
    ELSE LET doc == JsonLoads(fs[path])
             st == append_loop(Result(ds, ord, fn, fs, "None"), doc,
                               fs[path].order, 1, save, duplicate)
         IN  Result(st.ds, st.ord, fn,
                    IF save THEN save_m(st.ds, st.ord, fn, st.fs, NoPath).fs
                    ELSE st.fs,
                    "True")

----------------------------------------------------------------------------
(* History bookkeeping *)

NoSave == [st |-> "none", ds |-> EmptyDict, export |-> FALSE, doc |-> EmptyDict]

(* The record of a call: the method, its filename and key arguments (""  *)
(* when it has none), its save argument (for purge: its clear_datastore  *)
(* argument), the value returned or the exception raised, and the method *)
(* called before it.                                                      *)
Call(op, path, key, save, ret) ==
    [op |-> op, path |-> path, key |-> key, save |-> save, ret |-> ret,
     prev |-> last.op]

Tick == steps < MaxSteps /\ steps' = steps + 1

(* The history of a path as a new store object sees it: no save of its  *)
(* own yet; a JSON export lying there is still the document exported.   *)
ForgetSaves(h) == [NoSave EXCEPT !.export = h.export, !.doc = h.doc]

(* saved after a call that wrote a snapshot of ds at path. *)
NoteSave(path, ds) ==
    [saved EXCEPT ![path] = [st |-> "saved", ds |-> ds, export |-> FALSE,
                             doc |-> EmptyDict]]

(* The call returning r becomes the state of the store. *)
Becomes(r) ==
    /\ datastore' = r.ds
    /\ order' = r.ord
    /\ filename' = r.fn
    /\ files' = r.fs

(* The keys a caller passes to add, update, delete and findkey: those of *)
(* Keys and the keys addkey has returned so far.                         *)
KeyArgs == Keys \cup {Uuids[i] : i \in 1..generated}

----------------------------------------------------------------------------
(* The state after MicroDB(InitPath) in a directory holding no file. *)
Init ==
    /\ datastore = EmptyDict
    /\ order = <<>>
    /\ filename = InitPath
    /\ files = [p \in Paths |-> NoFile]
    /\ saved = [p \in Paths |-> NoSave]
    /\ last = [op |-> "MicroDB", path |-> InitPath, key |-> "", save |-> FALSE,
               ret |-> "MicroDB", prev |-> ""]
    /\ generated = 0
    /\ steps = 0

(* A new store object replaces the current one; when the constructor    *)
(* raises, no object is made and the current one stays.                 *)
Open(path, preload, exist) ==
    LET r == init_m(files, path, preload, exist)
    IN  /\ Tick
        /\ UNCHANGED generated
        /\ IF r.ret = "MicroDB"
           THEN Becomes(r) /\ saved' = [p \in Paths |-> ForgetSaves(saved[p])]
           ELSE UNCHANGED <<datastore, order, filename, files, saved>>
        /\ last' = Call("MicroDB", path, "", FALSE, r.ret)

save(path) ==
    LET r == save_m(datastore, order, filename, files, path)
    IN  /\ Tick
        /\ UNCHANGED generated
        /\ Becomes(r)
        /\ saved' = NoteSave(IF path = NoPath THEN filename ELSE path, r.ds)
        /\ last' = Call("save", path, "", TRUE, r.ret)

purge(clear_datastore) ==
    LET r == purge_m(datastore, order, filename, files, clear_datastore)
    IN  /\ Tick
        /\ UNCHANGED generated
        /\ Becomes(r)
        /\ saved' = [saved EXCEPT ![filename] = NoSave]
        /\ last' = Call("purge", "", "", clear_datastore, r.ret)

rename(path, sv) ==
    LET r == rename_m(datastore, order, filename, files, path, sv)
    IN  /\ Tick
        /\ UNCHANGED generated
        /\ Becomes(r)
        /\ saved' = IF sv THEN NoteSave(path, r.ds) ELSE saved
        /\ last' = Call("rename", path, "", sv, r.ret)

add(key, data, sv) ==
    LET r == add_m(datastore, order, filename, files, key, data, sv)
    IN  /\ Tick
        /\ UNCHANGED generated
        /\ Becomes(r)
        /\ saved' = IF sv /\ r.ret = "True" THEN NoteSave(filename, r.ds) ELSE saved
        /\ last' = Call("add", "", key, sv, r.ret)

(* addkey(data, sv): uuid4 is called once more and gives the next key. *)
addkey(data, sv) ==
    LET key == Uuids[generated + 1]
        r == addkey_m(datastore, order, filename, files, key, data, sv)
    IN  /\ generated < Len(Uuids)
        /\ Tick
        /\ generated' = generated + 1
        /\ Becomes(r)
        /\ saved' = IF sv /\ r.ret = key THEN NoteSave(filename, r.ds) ELSE saved
        /\ last' = Call("addkey", "", key, sv, r.ret)

update(key, data, sv) ==
    LET r == update_m(datastore, order, filename, files, key, data, sv)
    IN  /\ Tick
        /\ UNCHANGED generated
        /\ Becomes(r)
        /\ saved' = IF sv /\ r.ret = "True" THEN NoteSave(filename, r.ds) ELSE saved
        /\ last' = Call("update", "", key, sv, r.ret)

delete(key, sv) ==
    LET r == delete_m(datastore, order, filename, files, key, sv)
    IN  /\ Tick
        /\ UNCHANGED generated
        /\ Becomes(r)
        /\ saved' = IF sv /\ r.ret = "True" THEN NoteSave(filename, r.ds) ELSE saved
        /\ last' = Call("delete", "", key, sv, r.ret)

to_json(path) ==
    LET r == to_json_m(datastore, order, filename, files, path)
    IN  /\ Tick
        /\ UNCHANGED generated
        /\ Becomes(r)
        /\ saved' = [saved EXCEPT ![path].export = TRUE, ![path].doc = r.ds]
        /\ last' = Call("to_json", path, "", FALSE, r.ret)

load_json(path, sv) ==
    LET r == load_json_m(datastore, order, filename, files, path, sv)
    IN  /\ Tick
        /\ UNCHANGED generated
        /\ Becomes(r)
        /\ saved' = IF sv /\ r.ret = "True" THEN NoteSave(filename, r.ds) ELSE saved
        /\ last' = Call("load_json", path, "", sv, r.ret)

append_json(path, sv, duplicate) ==
    LET r == append_json_m(datastore, order, filename, files, path, sv, duplicate)
    IN  /\ Tick
        /\ UNCHANGED generated
        /\ Becomes(r)
        /\ saved' = IF sv /\ r.ret = "True" THEN NoteSave(filename, r.ds) ELSE saved
        /\ last' = Call("append_json", path, "", sv, r.ret)

(* The lookup and search methods leave the store and the files alone;  *)
(* the call record carries the arguments and the value returned.        *)
findkey(key) ==
    /\ Tick
    /\ UNCHANGED <<datastore, order, generated, filename, files, saved>>
    /\ last' = [op |-> "findkey", path |-> "", key |-> key, save |-> FALSE,
                ret |-> "value", prev |-> last.op,
                val |-> findkey_m(datastore, key)]

findkeys(keys) ==
    /\ Tick
    /\ UNCHANGED <<datastore, order, generated, filename, files, saved>>
    /\ last' = [op |-> "findkeys", path |-> "", key |-> "", save |-> FALSE,
                ret |-> "list", prev |-> last.op,
                keys |-> keys, val |-> findkeys_m(datastore, keys)]

search_subkey(key, pattern) ==
    LET r == search_subkey_m(datastore, order, key, pattern)
    IN  /\ Tick
        /\ UNCHANGED <<datastore, order, generated, filename, files, saved>>
        /\ last' = [op |-> "search_subkey", path |-> "", key |-> key,
                    save |-> FALSE, ret |-> r.ret, prev |-> last.op,
                    pattern |-> pattern, val |-> r.found]

Next ==
    \/ \E p \in Paths, preload \in BOOLEAN, exist \in BOOLEAN : Open(p, preload, exist)
    \/ \E p \in Paths \cup {NoPath} : save(p)
    \/ \E c \in BOOLEAN : purge(c)
    \/ \E p \in Paths, sv \in BOOLEAN : rename(p, sv)
    \/ \E k \in KeyArgs, v \in Values, sv \in BOOLEAN : add(k, v, sv)
    \/ \E v \in Values, sv \in BOOLEAN : addkey(v, sv)
    \/ \E k \in KeyArgs, v \in Values, sv \in BOOLEAN : update(k, v, sv)
    \/ \E k \in KeyArgs, sv \in BOOLEAN : delete(k, sv)
    \/ \E p \in Paths : to_json(p)
    \/ \E p \in Paths, sv \in BOOLEAN : load_json(p, sv)
    \/ \E p \in Paths, sv \in BOOLEAN, d \in BOOLEAN : append_json(p, sv, d)

Spec == Init /\ [][Next]_vars

(* The lookup and search methods on a store holding any mapping from    *)
(* Keys to QueryValues, built by calls of add with save=False.          *)
InitQuery ==
    /\ datastore \in UNION {[D -> QueryValues] : D \in SUBSET Keys}
    /\ order \in Orders(DOMAIN datastore)
    /\ filename = InitPath
    /\ files = [p \in Paths |-> NoFile]
    /\ saved = [p \in Paths |-> NoSave]
    /\ last = [op |-> "add", path |-> "", key |-> "", save |-> FALSE,
               ret |-> "True", prev |-> ""]
    /\ generated = 0
    /\ steps = 0

NextQuery ==
    \/ \E k \in Keys : findkey(k)
    \/ \E ks \in KeySeqs : findkeys(ks)
    \/ \E sk \in SubKeys, pat \in Patterns : search_subkey(sk, pat)

SpecQuery == InitQuery /\ [][NextQuery]_vars

(* The state after MicroDB(InitPath, preload=True) on a location that    *)
(* holds no file or a snapshot of some mapping.                          *)
InitWriteThrough ==
    /\ \E d \in UNION {[D -> Values] : D \in SUBSET Keys} :
          \E f \in {NoFile} \cup {PickleDump(d, o) : o \in Orders(DOMAIN d)} :
              files = [p \in Paths |-> IF p = InitPath THEN f ELSE NoFile]
    /\ datastore = init_m(files, InitPath, TRUE, FALSE).ds
    /\ order = init_m(files, InitPath, TRUE, FALSE).ord
    /\ filename = InitPath
    /\ saved = [p \in Paths |-> NoSave]
    /\ last = [op |-> "MicroDB", path |-> InitPath, key |-> "", save |-> FALSE,
               ret |-> "MicroDB", prev |-> ""]
    /\ generated = 0
    /\ steps = 0

(* Every mutation is made with save=True; save(), purge and findkey come *)
(* in between; no JSON export and no override save is aimed at the       *)
(* default location.                                                     *)
NextWriteThrough ==
    \/ \E k \in KeyArgs, v \in Values : add(k, v, TRUE)
    \/ \E v \in Values : addkey(v, TRUE)
    \/ \E k \in KeyArgs, v \in Values : update(k, v, TRUE)
    \/ \E k \in KeyArgs : delete(k, TRUE)
    \/ \E p \in Paths : load_json(p, TRUE)
    \/ \E p \in Paths, d \in BOOLEAN : append_json(p, TRUE, d)
    \/ \E p \in Paths : rename(p, TRUE)
    \/ \E p \in (Paths \ {filename}) \cup {NoPath} : save(p)
    \/ \E c \in BOOLEAN : purge(c)
    \/ \E p \in Paths \ {filename} : to_json(p)
    \/ \E k \in KeyArgs : findkey(k)

SpecWriteThrough == InitWriteThrough /\ [][NextWriteThrough]_vars

(* A store at InitPath holding any mapping from Keys to Values, built by *)
(* calls of add with save=False, next to a JSON document at the other    *)
(* path which a to_json exported from any such mapping.                  *)
InitMerge ==
    /\ datastore \in UNION {[D -> Values] : D \in SUBSET Keys}
    /\ order \in Orders(DOMAIN datastore)
    /\ generated = 0
    /\ filename = InitPath
    /\ \E doc \in UNION {[D -> Values] : D \in SUBSET Keys} :
          \E o \in Orders(DOMAIN doc) :
              /\ files = [p \in Paths |-> IF p = InitPath THEN NoFile
                                          ELSE JsonDumps(doc, o)]
              /\ saved = [p \in Paths |->
                            IF p = InitPath THEN NoSave
                            ELSE [NoSave EXCEPT !.export = TRUE, !.doc = doc]]
    /\ last = [op |-> "add", path |-> "", key |-> "", save |-> FALSE,
               ret |-> "True", prev |-> ""]
    /\ steps = 0

(* Merges of the document, with saves of the mapping in between. *)
NextMerge ==
    \/ \E p \in Paths, sv \in BOOLEAN, d \in BOOLEAN : append_json(p, sv, d)
    \/ \E p \in Paths \cup {NoPath} : save(p)

SpecMerge == InitMerge /\ [][NextMerge]_vars

----------------------------------------------------------------------------
(* Properties *)

(* d2 is d with key mapped to data and every other entry as it was. *)
IsSetItem(d, d2, key, data) ==
    /\ DOMAIN d2 = (DOMAIN d) \cup {key}
    /\ d2[key] = data
    /\ \A j \in (DOMAIN d) \ {key} : d2[j] = d[j]

(* C1: Add never overwrites.  add(k, v) on an absent k returns True and   *)
(* afterwards k maps to v with every other entry unchanged; add(k, v) on  *)
(* a present k, with any save flag, returns False and leaves the mapping  *)
(* as it was, so k keeps the value of the first add.                      *)
C1_AddNeverOverwrites ==
    [][\A k \in KeyArgs, v \in Values, sv \in BOOLEAN :
        last'.op = "add" /\ add(k, v, sv) =>
            IF k \in DOMAIN datastore
            THEN last'.ret = "False" /\ datastore' = datastore
            ELSE last'.ret = "True" /\ IsSetItem(datastore, datastore', k, v)]_vars

(* An add that succeeded followed by an add of the same key that failed. *)
C1_Witness ==
    /\ steps = 2
    /\ last.op = "add" /\ last.prev = "add" /\ last.ret = "False"
    /\ DOMAIN datastore = {last.key}

(* C7: Update-miss.  update(k, v) on an absent k returns False and leaves *)
(* the mapping unchanged; on a present k it returns True and changes only *)
(* the value of k.                                                        *)
C7_UpdateMiss ==
    [][\A k \in KeyArgs, v \in Values, sv \in BOOLEAN :
        last'.op = "update" /\ update(k, v, sv) =>
            IF k \in DOMAIN datastore
            THEN /\ last'.ret = "True"
                 /\ DOMAIN datastore' = DOMAIN datastore
                 /\ IsSetItem(datastore, datastore', k, v)
            ELSE last'.ret = "False" /\ datastore' = datastore]_vars

(* An update of a key that is absent while another key is stored. *)
C7_Witness ==
    /\ last.op = "update" /\ last.ret = "False"
    /\ last.key \notin DOMAIN datastore
    /\ datastore # EmptyDict

(* C8: Delete-miss.  delete(k) on an absent k returns False, raises       *)
(* nothing and leaves the mapping unchanged; on a present k it returns    *)
(* True and removes exactly k.                                            *)
C8_DeleteMiss ==
    [][\A k \in KeyArgs, sv \in BOOLEAN :
        last'.op = "delete" /\ delete(k, sv) =>
            IF k \in DOMAIN datastore
            THEN /\ last'.ret = "True"
                 /\ DOMAIN datastore' = (DOMAIN datastore) \ {k}
                 /\ \A j \in DOMAIN datastore' : datastore'[j] = datastore[j]
            ELSE last'.ret = "False" /\ datastore' = datastore]_vars

(* A delete of a key that is absent while another key is stored. *)
C8_Witness ==
    /\ last.op = "delete" /\ last.ret = "False"
    /\ last.key \notin DOMAIN datastore
    /\ datastore # EmptyDict

(* The file at path p is a snapshot holding exactly the mapping d. *)
SnapshotOf(p, d) == files[p].fmt = "pickle" /\ PickleLoad(files[p]) = d

(* C2: Synchronous durability.  When add, update or delete was called     *)
(* with save=True and returned True, then as it returns a snapshot file   *)
(* exists at the current default location and holds the whole in-memory   *)
(* mapping as it is after the mutation.                                   *)
C2_SyncDurability ==
    (last.op \in {"add", "update", "delete"} /\ last.save /\ last.ret = "True")
        => SnapshotOf(filename, datastore)

(* A saving delete that left an entry behind, at a renamed location. *)
C2_Witness ==
    /\ last.op = "delete" /\ last.save /\ last.ret = "True"
    /\ filename # InitPath
    /\ datastore # EmptyDict

(* C3 as stated: every path this store saved to and has not purged since  *)
(* holds the mapping as it was at the most recent save to that path.      *)
C3_AsStated ==
    \A p \in Paths : saved[p].st = "saved" => SnapshotOf(p, saved[p].ds)

(* C3: Snapshot invariant.  Every path this store saved to, has not       *)
(* purged since and has not written a JSON export to since, holds the     *)
(* mapping as it was at the most recent save to that path; the in-memory  *)
(* mapping may have moved on.                                             *)
C3_SnapshotInvariant ==
    \A p \in Paths :
        (saved[p].st = "saved" /\ ~saved[p].export) => SnapshotOf(p, saved[p].ds)

(* The snapshot at the default location lags the in-memory mapping after  *)
(* a mutation made with save=False.                                       *)
C3_Witness ==
    /\ saved[filename].st = "saved" /\ ~saved[filename].export
    /\ saved[filename].ds # datastore
    /\ saved[filename].ds # EmptyDict
    /\ last.op \in {"add", "update", "delete"} /\ ~last.save /\ last.ret = "True"

(* C4: Snapshot round-trip.  When a save wrote the mapping M to a         *)
(* location and the file has not been purged or overwritten by an export  *)
(* since, MicroDB(location, preload=True) makes a store whose mapping     *)
(* equals M, key for key and value for value.                             *)
C4_SnapshotRoundTrip ==
    [][\A p \in Paths, e \in BOOLEAN :
        (/\ last'.op = "MicroDB"
         /\ Open(p, TRUE, e)
         /\ saved[p].st = "saved" /\ ~saved[p].export)
        => (/\ last'.ret = "MicroDB"
            /\ filename' = p
            /\ DOMAIN datastore' = DOMAIN saved[p].ds
            /\ \A k \in DOMAIN datastore' : datastore'[k] = saved[p].ds[k])]_vars

(* A store opened right after a save on the only file there is, holding *)
(* two reloaded entries.                                                 *)
C4_Witness ==
    /\ last.op = "MicroDB" /\ last.ret = "MicroDB" /\ last.prev = "save"
    /\ \A p \in Paths : Exists(files, p) <=> p = last.path
    /\ DOMAIN datastore = Keys

(* C5 as stated: MergeJSON never changes an existing entry, whatever the  *)
(* stored value is, for either value of duplicate and of save.            *)
C5_MergeKeepsExisting ==
    [][\A p \in Paths, sv \in BOOLEAN, d \in BOOLEAN :
        last'.op = "append_json" /\ append_json(p, sv, d) =>
            \A k \in DOMAIN datastore :
                k \in DOMAIN datastore' /\ datastore'[k] = datastore[k]]_vars

(* What the loop body of append_json does to the value at a key k that  *)
(* the mapping holds, when it is run on k alone.                         *)
MergedAlone(k, data, d) ==
    append_item(Result(datastore, order, filename, files, "None"),
                k, data, FALSE, d).ds[k]

(* C6: MergeJSON never inserts.  A key of the merge document that is      *)
(* absent from the mapping before append_json is absent after it, for     *)
(* either value of duplicate, and the call does not stop at such a key:   *)
(* every key of the document that the mapping holds, wherever it stands   *)
(* in the document, ends with the value the loop body gives it on its     *)
(* own, every other entry is as it was, and the call returns True and,    *)
(* with save=True, has written the snapshot.                              *)
C6_MergeNeverInserts ==
    [][\A p \in Paths, sv \in BOOLEAN, d \in BOOLEAN :
        (/\ last'.op = "append_json"
         /\ append_json(p, sv, d)
         /\ files[p].fmt = "json")
        => LET D == JsonLoads(files[p])
           IN  /\ \A k \in DOMAIN D :
                     k \notin DOMAIN datastore => k \notin DOMAIN datastore'
               /\ DOMAIN datastore' = DOMAIN datastore
               /\ \A k \in DOMAIN datastore :
                     datastore'[k] = IF k \in DOMAIN D
                                     THEN MergedAlone(k, D[k], d)
                                     ELSE datastore[k]
               /\ last'.ret = "True"
               /\ sv => files'[filename'] = PickleDump(datastore', order')]_vars

(* A merge of a two-key document whose first key the mapping lacks: the  *)
(* key is still absent, and the second key, which the mapping held with  *)
(* another value when it was saved right before the merge, now has the   *)
(* value of the document.                                                *)
C6_Witness ==
    /\ last.op = "append_json" /\ last.ret = "True" /\ ~last.save
    /\ last.prev = "save"
    /\ filename # last.path
    /\ files[last.path].fmt = "json"
    /\ saved[filename].st = "saved"
    /\ LET D == JsonLoads(files[last.path])
           keys == files[last.path].order
           before == saved[filename].ds
       IN  /\ Len(keys) = 2
           /\ keys[1] \notin DOMAIN before
           /\ keys[1] \notin DOMAIN datastore
           /\ keys[2] \in DOMAIN before
           /\ before[keys[2]] # D[keys[2]]
           /\ datastore[keys[2]] = D[keys[2]]

(* C9: Purge never touches the in-memory mapping.  For either value of    *)
(* clear_datastore the mapping after purge equals the mapping before it,  *)
(* the default location is unchanged and no file other than the one at    *)
(* the default location is affected.                                      *)
C9_PurgeKeepsMapping ==
    [][\A c \in BOOLEAN :
        last'.op = "purge" /\ purge(c) =>
            /\ datastore' = datastore
            /\ filename' = filename
            /\ \A p \in Paths \ {filename} : files'[p] = files[p]]_vars

(* purge(clear_datastore=True) removed the file of a non-empty store. *)
C9_Witness ==
    /\ last.op = "purge" /\ last.save /\ last.ret = "True"
    /\ datastore # EmptyDict

(* C10: Purge result and idempotence.  purge returns True exactly when a  *)
(* file existed at the current default location, afterwards no file       *)
(* exists there, and a purge called right after a purge returns False.    *)
C10_PurgeResult ==
    [][\A c \in BOOLEAN :
        last'.op = "purge" /\ purge(c) =>
            /\ last'.ret = "True" <=> Exists(files, filename)
            /\ ~Exists(files', filename')
            /\ last.op = "purge" => last'.ret = "False"]_vars

(* A second purge in a row returned False at a location set by rename. *)
C10_Witness ==
    /\ last.op = "purge" /\ last.prev = "purge" /\ last.ret = "False"
    /\ filename # InitPath
    /\ steps = 3

(* C11: Save with an override path.  save(p) writes the whole current    *)
(* mapping to p, over any file there, and changes neither the default     *)
(* location nor the mapping nor any file other than p; a saving add,      *)
(* update or delete or a save() made right after it writes to the default *)
(* location, which is still the one from before the override.             *)
C11_SaveOverride ==
    [][/\ \A p \in Paths :
            last'.op = "save" /\ save(p) =>
                /\ files'[p] = PickleDump(datastore, order)
                /\ PickleLoad(files'[p]) = datastore
                /\ filename' = filename
                /\ datastore' = datastore
                /\ \A q \in Paths \ {p} : files'[q] = files[q]
       /\ (/\ last.op = "save" /\ last.path \in Paths
           /\ \/ last'.op \in {"add", "update", "delete"} /\ last'.save
                    /\ last'.ret = "True"
              \/ last'.op = "save" /\ last'.path = NoPath)
          => (filename' = filename /\ files'[filename] = PickleDump(datastore', order'))
      ]_vars

(* An override save to a path other than the default location, whose     *)
(* file keeps a snapshot that differs from the one just written.         *)
C11_Witness ==
    /\ last.op = "save" /\ last.path \in Paths /\ last.path # filename
    /\ datastore # EmptyDict
    /\ files[filename].fmt = "pickle"
    /\ files[filename] # files[last.path]

(* What rename(p, sv) does to the store itself, and where a purge or a   *)
(* save() made right after a rename acts.                                 *)
RenameEffect(p, sv) ==
    /\ filename' = p
    /\ datastore' = datastore
    /\ sv => (files'[p] = PickleDump(datastore, order) /\ PickleLoad(files'[p]) = datastore)
    /\ ~sv => files' = files

AfterRename ==
    /\ (last.op = "rename" /\ last'.op = "purge")
        => (/\ ~Exists(files', last.path)
            /\ \A q \in Paths \ {last.path} : files'[q] = files[q])
    /\ (last.op = "rename" /\ last'.op = "save" /\ last'.path = NoPath)
        => (/\ files'[last.path] = PickleDump(datastore', order')
            /\ \A q \in Paths \ {last.path} : files'[q] = files[q])

(* C12 as stated: rename(p, save) sets the default location to p and     *)
(* leaves the mapping unchanged; with save=True a snapshot of the mapping *)
(* is written at p; in both cases the file at the previous location, if   *)
(* any, keeps exactly its previous content; later saves and purges act on *)
(* p.                                                                     *)
C12_AsStated ==
    [][/\ \A p \in Paths, sv \in BOOLEAN :
            last'.op = "rename" /\ rename(p, sv) =>
                /\ RenameEffect(p, sv)
                /\ Exists(files, filename) => files'[filename] = files[filename]
       /\ AfterRename]_vars

(* C12: Rename.  As stated, except that the file at the previous location *)
(* keeps its content when the new location differs from the previous one: *)
(* rename(p, save=True) with p the current location rewrites that file.   *)
C12_Rename ==
    [][/\ \A p \in Paths, sv \in BOOLEAN :
            last'.op = "rename" /\ rename(p, sv) =>
                /\ RenameEffect(p, sv)
                /\ \A q \in Paths \ {p} : files'[q] = files[q]
       /\ AfterRename]_vars

(* A saving rename away from a location whose file stays behind with a   *)
(* content that differs from the snapshot written at the new location.   *)
C12_Witness ==
    /\ last.op = "rename" /\ last.save /\ last.path = filename
    /\ \E q \in Paths \ {filename} :
          files[q].fmt = "pickle" /\ files[q] # files[filename]
    /\ datastore # EmptyDict

(* C13 as stated: MicroDB(p, preload=True, exist=True) when no file is at *)
(* p fails with ValueError and makes no store; MicroDB(p, preload=True,   *)
(* exist=False) when no file is at p succeeds with an empty mapping and   *)
(* creates no file.                                                       *)
C13_OpenAbsent ==
    [][\A p \in Paths :
        (last'.op = "MicroDB" /\ ~Exists(files, p)) =>
            /\ Open(p, TRUE, TRUE) =>
                  /\ last'.ret = "ValueError"
                  /\ UNCHANGED <<datastore, order, filename, files>>
            /\ Open(p, TRUE, FALSE) =>
                  /\ last'.ret = "MicroDB"
                  /\ datastore' = EmptyDict /\ filename' = p
                  /\ files' = files]_vars

(* C14: ImportJSON replaces, never merges.  After load_json(p, save) on a *)
(* file holding a JSON document D the mapping equals D exactly; with      *)
(* save=True the snapshot at the default location equals D and no other   *)
(* file changes; with save=False no file is written.                      *)
C14_ImportReplaces ==
    [][\A p \in Paths, sv \in BOOLEAN :
        (last'.op = "load_json" /\ load_json(p, sv) /\ files[p].fmt = "json") =>
            LET D == JsonLoads(files[p])
            IN  /\ last'.ret = "True"
                /\ DOMAIN datastore' = DOMAIN D
                /\ \A k \in DOMAIN D : datastore'[k] = D[k]
                /\ filename' = filename
                /\ sv => /\ files'[filename].fmt = "pickle"
                         /\ PickleLoad(files'[filename]) = D
                         /\ \A q \in Paths \ {filename} : files'[q] = files[q]
                /\ ~sv => files' = files]_vars

(* An import with save=False dropped a key that the snapshot at the      *)
(* default location, written before it, still holds.                     *)
C14_Witness ==
    /\ last.op = "load_json" /\ last.ret = "True" /\ ~last.save
    /\ saved[filename].st = "saved" /\ ~saved[filename].export
    /\ \E k \in DOMAIN saved[filename].ds : k \notin DOMAIN datastore
    /\ datastore # EmptyDict

(* C15: JSON round-trip.  to_json(p) returns True and changes neither   *)
(* the mapping nor the default location nor any file other than p; and   *)
(* load_json(p) on a file that the last write to p exported from the     *)
(* mapping M, made by this store or by a store opened later, yields a    *)
(* mapping equal to M.                                                   *)
C15_JsonRoundTrip ==
    [][/\ \A p \in Paths :
            last'.op = "to_json" /\ to_json(p) =>
                /\ last'.ret = "True"
                /\ datastore' = datastore
                /\ filename' = filename
                /\ \A q \in Paths \ {p} : files'[q] = files[q]
       /\ \A p \in Paths, sv \in BOOLEAN :
            (last'.op = "load_json" /\ load_json(p, sv) /\ saved[p].export) =>
                /\ last'.ret = "True"
                /\ DOMAIN datastore' = DOMAIN saved[p].doc
                /\ \A k \in DOMAIN datastore' : datastore'[k] = saved[p].doc[k]
      ]_vars

(* A store opened without preload on the path of an export imported it   *)
(* and holds the exported entries.                                       *)
C15_Witness ==
    /\ steps = 4
    /\ last.op = "load_json" /\ last.ret = "True" /\ ~last.save
    /\ last.prev = "MicroDB"
    /\ filename = last.path /\ filename # InitPath
    /\ saved[filename].export /\ saved[filename].doc = datastore
    /\ datastore # EmptyDict

(* The files after a call of add, update or delete made with save=sv:    *)
(* the snapshot at the default location is rewritten from the mapping    *)
(* when the call returned True and sv holds, and otherwise every file is *)
(* as it was.                                                            *)
MutationFileFrame(sv) ==
    IF last'.ret = "True" /\ sv
    THEN files' = [files EXCEPT ![filename] = PickleDump(datastore', order')]
    ELSE files' = files

(* C20: File frame of single mutations.  add, update and delete write    *)
(* the snapshot file if and only if they return True and save is True; a *)
(* call that returns False or is made with save=False leaves every file  *)
(* unchanged: it creates no snapshot where none exists and refreshes no  *)
(* snapshot that lags.                                                   *)
C20_MutationFileFrame ==
    [][/\ \A k \in KeyArgs, v \in Values, sv \in BOOLEAN :
            last'.op = "add" /\ add(k, v, sv) => MutationFileFrame(sv)
       /\ \A k \in KeyArgs, v \in Values, sv \in BOOLEAN :
            last'.op = "update" /\ update(k, v, sv) => MutationFileFrame(sv)
       /\ \A k \in KeyArgs, sv \in BOOLEAN :
            last'.op = "delete" /\ delete(k, sv) => MutationFileFrame(sv)
      ]_vars

(* After a purge, an update with save=True of a missing key returned     *)
(* False and no snapshot exists at the default location.                 *)
C20_Witness ==
    /\ last.op = "update" /\ last.save /\ last.ret = "False"
    /\ last.prev = "purge"
    /\ ~Exists(files, filename)
    /\ datastore # EmptyDict

(* C16 as stated: the result of findkey on an absent key can be told     *)
(* from the result of findkey on a present key, whatever is stored there, *)
(* None included; a present key yields its stored value.                  *)
C16_FindKeyDistinguishes ==
    last.op = "findkey" =>
        IF last.key \in DOMAIN datastore
        THEN last.val = datastore[last.key]
        ELSE \A k \in DOMAIN datastore : last.val # findkey_m(datastore, k)

(* The values findkeys is to return: those stored at the keys of the     *)
(* input that are present, one per such key, in input order.             *)
RECURSIVE PresentValues(_, _)
PresentValues(d, keys) ==
    IF keys = <<>> THEN <<>>
    ELSE (IF Head(keys) \in DOMAIN d THEN <<d[Head(keys)]>> ELSE <<>>)
            \o PresentValues(d, Tail(keys))

(* C17 as stated: findkeys returns exactly the stored values of the      *)
(* input keys that are present, falsy values included, in input order,   *)
(* skipping only the absent keys.                                        *)
C17_FindKeysPresent ==
    last.op = "findkeys" => last.val = PresentValues(datastore, last.keys)

(* The entries search_subkey is to report, and those it is to fail on. *)
IsDict(v) == v.kind = "dict"

SubkeyMatches(d, subkey, pattern) ==
    {k \in DOMAIN d : /\ IsDict(d[k])
                      /\ subkey \in DOMAIN d[k].m
                      /\ d[k].m[subkey].kind = "str"
                      /\ Contains(pattern, d[k].m[subkey].s)}

SubkeyNotText(d, subkey) ==
    \E k \in DOMAIN d : /\ IsDict(d[k])
                        /\ subkey \in DOMAIN d[k].m
                        /\ d[k].m[subkey].kind # "str"

(* C18 as stated: search_subkey skips the entries whose value is not a   *)
(* dict or is a dict without the subkey; it raises TypeError only when a *)
(* dict holds the subkey with a value that is not text, and otherwise    *)
(* returns exactly the keys whose dict holds the subkey with a matching  *)
(* text.                                                                 *)
C18_SearchSubkeySkips ==
    last.op = "search_subkey" =>
        IF SubkeyNotText(datastore, last.key)
        THEN last.ret = "TypeError"
        ELSE /\ last.ret = "list"
             /\ {last.val[i] : i \in 1..Len(last.val)}
                    = SubkeyMatches(datastore, last.key, last.pattern)

(* C19: Write-through consistency.  For a store opened with preload on   *)
(* no file or a valid snapshot and then mutated only with save=True,      *)
(* between calls a file at the current default location, when there is    *)
(* one, is a snapshot equal to the in-memory mapping.                     *)
C19_WriteThrough ==
    Exists(files, filename) => SnapshotOf(filename, datastore)

(* After a rename, a delete made with save=True removed an entry: the    *)
(* file at the new default location holds the remaining entries while    *)
(* the file left at the old location still holds another mapping.        *)
C19_Witness ==
    /\ last.op = "delete" /\ last.ret = "True" /\ last.save
    /\ last.prev = "rename"
    /\ filename # InitPath
    /\ datastore # EmptyDict
    /\ Exists(files, filename) /\ SnapshotOf(filename, datastore)
    /\ Exists(files, InitPath) /\ ~SnapshotOf(InitPath, datastore)

====
